---------------------------- MODULE Spec2Model ----------------------------
(***************************************************************************)
(* A model of six parts of the template compiler, its tooling and the      *)
(* common pipes:                                                           *)
(*                                                                         *)
(*   - flattenInheritedDirectiveMetadata                                   *)
(*     (packages/compiler-cli/src/ngtsc/metadata/src/inheritance.ts),      *)
(*     specification Spec;                                                 *)
(*   - findNodeAtPosition (the language service's position resolver,       *)
(*     src/unnamed/part_000), specification SpecFind;                      *)
(*   - serializeTranslationMessage, specification SpecSerialize;           *)
(*   - the parse errors for nested i18n markers and for two structural     *)
(*     directives on one element, specification SpecTemplate;              *)
(*   - AsyncPipe (packages/common/src/pipes/async_pipe.ts) with the        *)
(*     promises and observables it subscribes to, specification SpecPipe;  *)
(*   - the desugaring of the microsyntax of a structural directive,        *)
(*     specification SpecMicro.                                            *)
(*                                                                         *)
(* The recursion of each algorithm is unfolded into steps: one step per    *)
(* invocation of addMetadata (its part before and its part after the       *)
(* recursive call) and one step per invocation of a visitor's visit().     *)
(***************************************************************************)
EXTENDS Integers, Sequences, FiniteSets

VARIABLES
    \* ---- flattenInheritedDirectiveMetadata ----
    reader,                   \* MetadataReader: class |-> DirectiveMeta (no entry: null)
    pc,                       \* where the current call is
    dir,                      \* the `dir` argument of the current call
    stack,                    \* classes whose addMetadata(meta) frame is active
    visited,                  \* history: classes addMetadata was invoked for, in order
    isDynamic,
    inputs,
    outputs,
    coercedInputFields,
    undeclaredInputFields,
    restrictedInputFields,
    stringLiteralInputFields,
    result,                   \* << >> or <<the returned DirectiveMeta>>
    \* ---- findNodeAtPosition ----
    ast,                      \* the template: every node of the tree, by id
    position,                 \* the `position` argument of the current call
    fpc,                      \* where the current call is
    todo,                     \* nodes whose visit() call is still to be made, in order
    path,                     \* R3Visitor.path
    pushed,                   \* history: ids of the nodes ever pushed on the path
    found,                    \* << >> (undefined) or <<id of the returned node>>
    \* ---- serializeTranslationMessage ----
    element,                  \* the `element` argument: its inner nodes, in order
    spc,                      \* where the current call is
    rootNodes,                \* parseInnerRange(element).rootNodes
    parseErrors,              \* parseInnerRange(element).errors
    returned,                 \* << >> or <<the returned object>>
    \* ---- compiling a template (elements, markers and shorthands) ----
    tpl,                      \* the template: a chain of elements, outermost first
    tpc,                      \* where the compilation is
    level,                    \* the element the builder is at
    inI18nBlock,              \* a translatable section is open
    aborted,                  \* message extraction was given up for the subtree
    wrappers,                 \* per element built: the directive of its <ng-template>, or ""
    ngParseErrors,            \* the parse errors reported so far
    \* ---- AsyncPipe ----
    _obj,                     \* the bound object, "null" for none
    _strategy,                \* "null", "promise" or "observable"
    _subscription,            \* 0 (null) or the index of the subscription held
    _latestValue,             \* 0 (null) or the latest value
    subscriptions,            \* every subscription the pipe created: [source, closed]
    settled,                  \* promise |-> the value it resolved with, 0 while pending
    current,                  \* the value the replaying observable holds
    microtasks,               \* then-callbacks that are due to run: [source, value]
    op,                       \* the last operation
    arg,                      \* the argument of the last transform call
    returnValue,              \* what the last transform call returned, or what it threw
    marked,                   \* markForCheck calls made by the last step
    seen,                     \* _latestValue as it was when markForCheck was last called
    checks,                   \* source |-> markForCheck calls its latest emission caused
    heard,                    \* what the bound source last delivered since it was bound, 0 for nothing
    \* ---- microsyntax of a structural directive ----
    directive,                \* the attribute name, without the asterisk
    clauses,                  \* the clauses of the attribute value, in order
    mpc,                      \* the number of clauses desugared so far
    bindings                  \* the bindings emitted so far

flattenVars == <<reader, pc, dir, stack, visited, isDynamic, inputs, outputs,
                 coercedInputFields, undeclaredInputFields, restrictedInputFields,
                 stringLiteralInputFields, result>>

findVars == <<ast, position, fpc, todo, path, pushed, found>>

serializeVars == <<element, spc, rootNodes, parseErrors, returned>>

templateVars == <<tpl, tpc, level, inI18nBlock, aborted, wrappers, ngParseErrors>>

pipeVars == <<_obj, _strategy, _subscription, _latestValue, subscriptions, settled,
              current, microtasks, op, arg, returnValue, marked, seen, checks, heard>>

microVars == <<directive, clauses, mpc, bindings>>

vars == <<flattenVars, findVars, serializeVars, templateVars, pipeVars, microVars>>

-----------------------------------------------------------------------------
(* Bounds *)

\* Number of directive classes known to the model; class i may extend class i+1.
NumClasses == 3

Classes == 1..NumClasses

-----------------------------------------------------------------------------
(* DirectiveMeta *)

\* baseClass: null
NullBase == 0
\* baseClass: 'dynamic'
DynamicBase == -1
\* owner of a Set object created by `new Set()`: no metadata record owns it
Fresh == 0

PropNames == {"p"}
BindingNames == {"x", "y"}
FieldNames == {"f"}

SetFields == {"coercedInputFields", "undeclaredInputFields",
              "restrictedInputFields", "stringLiteralInputFields"}
MapFields == {"inputs", "outputs"}

\* ClassPropertyMapping.empty()
EmptyMapping == [k \in {} |-> "x"]

\* ClassPropertyMapping.merge(a, b): the entries of both, b's entry on a collision
Merge(a, b) ==
    [k \in (DOMAIN a) \cup (DOMAIN b) |-> IF k \in DOMAIN b THEN b[k] ELSE a[k]]

\* All ClassPropertyMappings over PropNames
Mappings == UNION {[D -> BindingNames] : D \in SUBSET PropNames}

\* reader.getDirectiveMetadata(c) !== null
HasMetadata(r, c) == c \in DOMAIN r

\* A record as a metadata reader builds it for class c: `field` is the one
\* kind of declaration the class hierarchy at hand makes, `content` its value.
MakeMeta(c, field, content, base) ==
    [ref |-> c,
     inputs  |-> IF field = "inputs"  THEN content ELSE EmptyMapping,
     outputs |-> IF field = "outputs" THEN content ELSE EmptyMapping,
     coercedInputFields       |-> IF field = "coercedInputFields" THEN content ELSE {},
     undeclaredInputFields    |-> IF field = "undeclaredInputFields" THEN content ELSE {},
     restrictedInputFields    |-> IF field = "restrictedInputFields" THEN content ELSE {},
     stringLiteralInputFields |-> IF field = "stringLiteralInputFields" THEN content ELSE {},
     baseClass |-> base]

ContentsOf(field) == IF field \in MapFields THEN Mappings ELSE SUBSET FieldNames

-----------------------------------------------------------------------------
(* Set objects: `owner` tells which metadata record the object belongs to *)

\* new Set<ClassPropertyName>() aliased to the directive's own set instead
AliasedSet(r, d, field) == [owner |-> d, elems |-> r[d][field]]

\* new Set<ClassPropertyName>()
NewSet(r, d, field) == [owner |-> Fresh, elems |-> {}]

\* Lines 57-68 assigning the level's set instead of adding to the accumulator
AddAllReplacing(set, more) == [set EXCEPT !.elems = more]

\* Lines 57-68 with the loop body left out
AddAllSkipped(set, more) == set

\* for (const x of more) set.add(x)
AddAll(set, more) == [set EXCEPT !.elems = @ \cup more]

\* The reader's records after a Set object was written to
Store(r, field, set) ==
    IF set.owner = Fresh THEN r ELSE [r EXCEPT ![set.owner][field] = set.elems]

-----------------------------------------------------------------------------
(* flattenInheritedDirectiveMetadata *)

NoSet == [owner |-> Fresh, elems |-> {}]

\* No metadata call was made yet
FlattenIdle ==
    /\ pc = "idle"
    /\ dir = 1
    /\ stack = << >>
    /\ visited = << >>
    /\ isDynamic = FALSE
    /\ inputs = EmptyMapping
    /\ outputs = EmptyMapping
    /\ coercedInputFields = NoSet
    /\ undeclaredInputFields = NoSet
    /\ restrictedInputFields = NoSet
    /\ stringLiteralInputFields = NoSet
    /\ result = << >>

\* No position lookup was made yet
FindIdle ==
    /\ position = 0
    /\ fpc = "idle"
    /\ todo = << >>
    /\ path = << >>
    /\ pushed = {}
    /\ found = << >>

\* No message was serialized yet
SerializeIdle ==
    /\ spc = "idle"
    /\ rootNodes = << >>
    /\ parseErrors = << >>
    /\ returned = << >>

\* No template was compiled yet
TemplateIdle ==
    /\ tpc = "idle"
    /\ level = 0
    /\ inI18nBlock = FALSE
    /\ aborted = FALSE
    /\ wrappers = << >>
    /\ ngParseErrors = << >>

\* The objects a transform call is made with: a promise, an observable that
\* emits when told to, an observable that emits the value it holds to every
\* new subscriber at once, an object that is neither, and null
Promises == {"P"}

Observables == {"O", "B"}

Sources == Promises \cup Observables

Objects == Sources \cup {"X", "null"}

\* Lines 83-87: the pipe as constructed
PipeIdle ==
    /\ _obj = "null"
    /\ _strategy = "null"
    /\ _subscription = 0
    /\ _latestValue = 0
    /\ subscriptions = << >>
    /\ settled = [p \in Promises |-> 0]
    /\ current = 1
    /\ microtasks = << >>
    /\ op = "none"
    /\ arg = "null"
    /\ returnValue = 0
    /\ marked = 0
    /\ seen = 0
    /\ checks = [s \in Sources |-> 0]
    /\ heard = 0

\* No attribute was desugared yet
MicroIdle ==
    /\ mpc = 0
    /\ bindings = << >>

Init ==
    /\ \E field \in MapFields \cup SetFields :
       \E reg \in SUBSET Classes :
       \E content \in [reg -> ContentsOf(field)] :
       \E base \in [reg -> {"null", "dynamic", "ref"}] :
          reader = [c \in reg |->
                      MakeMeta(c, field, content[c],
                               CASE base[c] = "null" -> NullBase
                                 [] base[c] = "dynamic" -> DynamicBase
                                 [] OTHER -> c + 1)]
    /\ FlattenIdle
    /\ ast = << >>
    /\ FindIdle
    /\ element = << >>
    /\ SerializeIdle
    /\ tpl = << >>
    /\ TemplateIdle
    /\ PipeIdle
    /\ directive = ""
    /\ clauses = << >>
    /\ MicroIdle

\* The caller's state between two calls
Returned == pc \in {"idle", "done", "threw"}

\* Lines 25-28 returning an empty dynamic record where the error is thrown
CallThrowsNot(d) ==
    /\ Returned
    /\ ~HasMetadata(reader, d)
    /\ pc' = "done"
    /\ dir' = d
    /\ result' = <<MakeMeta(d, "inputs", EmptyMapping, DynamicBase)>>
    /\ stack' = << >>
    /\ visited' = << >>
    /\ UNCHANGED <<reader, isDynamic, inputs, outputs, coercedInputFields,
                   undeclaredInputFields, restrictedInputFields,
                   stringLiteralInputFields>>
    /\ UNCHANGED <<findVars, serializeVars, templateVars,
                 pipeVars, microVars>>

\* Lines 25-28: no metadata for the directive itself
CallThrows(d) ==
    /\ Returned
    /\ ~HasMetadata(reader, d)
    /\ pc' = "threw"
    /\ dir' = d
    /\ result' = << >>
    /\ stack' = << >>
    /\ visited' = << >>
    /\ UNCHANGED <<reader, isDynamic, inputs, outputs, coercedInputFields,
                   undeclaredInputFields, restrictedInputFields,
                   stringLiteralInputFields>>
    /\ UNCHANGED <<findVars, serializeVars, templateVars,
                 pipeVars, microVars>>

\* Line 30 returning a record built from accumulators that were never filled
NoBaseResultEmptied(meta) ==
    [meta EXCEPT !.inputs = EmptyMapping, !.outputs = EmptyMapping,
                 !.coercedInputFields = {}, !.undeclaredInputFields = {},
                 !.restrictedInputFields = {}, !.stringLiteralInputFields = {}]

\* Line 30: return topMeta
NoBaseResult(meta) == meta

\* Lines 25-31: the directive has no base class, topMeta is returned as it is
CallNoBase(d) ==
    /\ Returned
    /\ HasMetadata(reader, d)
    /\ reader[d].baseClass = NullBase
    /\ pc' = "done"
    /\ dir' = d
    /\ result' = <<NoBaseResult(reader[d])>>
    /\ stack' = << >>
    /\ visited' = << >>
    /\ UNCHANGED <<reader, isDynamic, inputs, outputs, coercedInputFields,
                   undeclaredInputFields, restrictedInputFields,
                   stringLiteralInputFields>>
    /\ UNCHANGED <<findVars, serializeVars, templateVars,
                 pipeVars, microVars>>

\* Lines 25-39 and 71: the accumulators are created, addMetadata(topMeta) is called
CallWithBase(d) ==
    /\ Returned
    /\ HasMetadata(reader, d)
    /\ reader[d].baseClass # NullBase
    /\ pc' = "enter"
    /\ dir' = d
    /\ result' = << >>
    /\ coercedInputFields' = NewSet(reader, d, "coercedInputFields")
    /\ undeclaredInputFields' = NewSet(reader, d, "undeclaredInputFields")
    /\ restrictedInputFields' = NewSet(reader, d, "restrictedInputFields")
    /\ stringLiteralInputFields' = NewSet(reader, d, "stringLiteralInputFields")
    /\ isDynamic' = FALSE
    /\ inputs' = EmptyMapping
    /\ outputs' = EmptyMapping
    /\ stack' = <<d>>
    /\ visited' = <<d>>
    /\ UNCHANGED reader
    /\ UNCHANGED <<findVars, serializeVars, templateVars,
                 pipeVars, microVars>>

Call == \E d \in Classes : CallThrows(d) \/ CallNoBase(d) \/ CallWithBase(d)

\* The meta of the innermost addMetadata frame
TopMeta == reader[stack[Len(stack)]]

\* Lines 42-43: meta.baseClass === 'dynamic'
EnterDynamic ==
    /\ pc = "enter"
    /\ TopMeta.baseClass = DynamicBase
    /\ isDynamic' = TRUE
    /\ pc' = "merge"
    /\ UNCHANGED <<stack, visited>>

\* Line 47 recursing on `meta` instead of `baseMeta`
RecursionTargetSelf(meta) == meta.ref

\* Lines 45-47: the class whose metadata the recursive call is made with
RecursionTarget(meta) == meta.baseClass

\* Lines 44-47: the base class has metadata, addMetadata(baseMeta) is called
EnterBase ==
    /\ pc = "enter"
    /\ TopMeta.baseClass \notin {DynamicBase, NullBase}
    /\ HasMetadata(reader, TopMeta.baseClass)
    /\ stack' = Append(stack, RecursionTarget(TopMeta))
    /\ visited' = Append(visited, RecursionTarget(TopMeta))
    /\ pc' = "enter"
    /\ UNCHANGED isDynamic

\* Line 50 left out: a missing base class does not change isDynamic
DynamicAfterMissingKept(dyn) == dyn

\* Line 50: isDynamic = true
DynamicAfterMissing(dyn) == TRUE

\* Lines 48-51: the base class has no metadata
EnterMissing ==
    /\ pc = "enter"
    /\ TopMeta.baseClass \notin {DynamicBase, NullBase}
    /\ ~HasMetadata(reader, TopMeta.baseClass)
    /\ isDynamic' = DynamicAfterMissing(isDynamic)
    /\ pc' = "merge"
    /\ UNCHANGED <<stack, visited>>

\* Line 44, else: meta.baseClass === null, nothing to follow
EnterRoot ==
    /\ pc = "enter"
    /\ TopMeta.baseClass = NullBase
    /\ pc' = "merge"
    /\ UNCHANGED <<stack, visited, isDynamic>>

\* addMetadata, lines 41-52
AddMetadataEnter ==
    /\ EnterDynamic \/ EnterBase \/ EnterMissing \/ EnterRoot
    /\ UNCHANGED <<reader, dir, inputs, outputs, coercedInputFields,
                   undeclaredInputFields, restrictedInputFields,
                   stringLiteralInputFields, result>>
    /\ UNCHANGED <<findVars, serializeVars, templateVars,
                 pipeVars, microVars>>

\* Line 54 with its arguments swapped
MergedInputsSwapped(acc, meta) == Merge(meta.inputs, acc)

\* Line 54
MergedInputs(acc, meta) == Merge(acc, meta.inputs)

\* Line 55
MergedOutputs(acc, meta) == Merge(acc, meta.outputs)

\* addMetadata, lines 54-68, and the return to the calling frame
AddMetadataMerge ==
    /\ pc = "merge"
    /\ LET meta == TopMeta
           c == AddAll(coercedInputFields, meta.coercedInputFields)
           u == AddAll(undeclaredInputFields, meta.undeclaredInputFields)
           s == AddAll(restrictedInputFields, meta.restrictedInputFields)
           l == AddAll(stringLiteralInputFields, meta.stringLiteralInputFields)
       IN  /\ inputs' = MergedInputs(inputs, meta)
           /\ outputs' = MergedOutputs(outputs, meta)
           /\ coercedInputFields' = c
           /\ undeclaredInputFields' = u
           /\ restrictedInputFields' = s
           /\ stringLiteralInputFields' = l
           /\ reader' = Store(Store(Store(Store(reader,
                            "coercedInputFields", c),
                            "undeclaredInputFields", u),
                            "restrictedInputFields", s),
                            "stringLiteralInputFields", l)
    /\ stack' = SubSeq(stack, 1, Len(stack) - 1)
    /\ pc' = IF Len(stack) = 1 THEN "return" ELSE "merge"
    /\ UNCHANGED <<dir, visited, isDynamic, result>>
    /\ UNCHANGED <<findVars, serializeVars, templateVars,
                 pipeVars, microVars>>

\* Line 81 left out: the spread of topMeta keeps its baseClass
FlattenedBaseKept(dyn) == reader[dir].baseClass

\* Line 81
FlattenedBase(dyn) == IF dyn THEN DynamicBase ELSE NullBase

\* Lines 73-82
Return ==
    /\ pc = "return"
    /\ result' = <<[reader[dir] EXCEPT
                      !.inputs = inputs,
                      !.outputs = outputs,
                      !.coercedInputFields = coercedInputFields.elems,
                      !.undeclaredInputFields = undeclaredInputFields.elems,
                      !.restrictedInputFields = restrictedInputFields.elems,
                      !.stringLiteralInputFields = stringLiteralInputFields.elems,
                      !.baseClass = FlattenedBase(isDynamic)]>>
    /\ pc' = "done"
    /\ UNCHANGED <<reader, dir, stack, visited, isDynamic, inputs, outputs,
                   coercedInputFields, undeclaredInputFields, restrictedInputFields,
                   stringLiteralInputFields>>
    /\ UNCHANGED <<findVars, serializeVars, templateVars,
                 pipeVars, microVars>>

Next == Call \/ AddMetadataEnter \/ AddMetadataMerge \/ Return

Spec == Init /\ [][Next]_vars

-----------------------------------------------------------------------------
(* The inheritance chain of a directive, as the reader describes it *)

RECURSIVE LevelsFrom(_, _)
\* The classes of the chain from c upwards whose metadata the reader has,
\* most derived first; the chain ends at a level without a resolvable base.
LevelsFrom(r, c) ==
    IF ~HasMetadata(r, c) THEN << >>
    ELSE IF r[c].baseClass \in {NullBase, DynamicBase} THEN <<c>>
    ELSE <<c>> \o LevelsFrom(r, r[c].baseClass)

Range(seq) == {seq[i] : i \in 1..Len(seq)}

\* Some level of the chain has baseClass 'dynamic' or a base class without metadata
ChainUnresolved(r, c) ==
    \E l \in Range(LevelsFrom(r, c)) :
        \/ r[l].baseClass = DynamicBase
        \/ r[l].baseClass \notin {NullBase, DynamicBase} /\ ~HasMetadata(r, r[l].baseClass)

\* A call that returned a record
Done == pc = "done" /\ Len(result) = 1

\* A call in progress
InProgress == pc \in {"enter", "merge", "return"}

-----------------------------------------------------------------------------
(* Claims *)

\* C1: for a directive whose own metadata has baseClass null, the call returns
\* metadata equal to what the reader returned for it: nothing is merged in.
C1_NoBaseIsNoOp ==
    (Done /\ reader[dir].baseClass = NullBase) => result[1] = reader[dir]

\* C1 witness: a call returned for a directive without base class that declares something
C1_Witness ==
    /\ Done
    /\ reader[dir].baseClass = NullBase
    /\ \/ reader[dir].inputs # EmptyMapping
       \/ reader[dir].coercedInputFields # {}

\* C2: if at some level of the chain the base class has no metadata or the
\* baseClass is 'dynamic', the flattened result has baseClass 'dynamic'.
C2_UnresolvedIsDynamic ==
    (Done /\ ChainUnresolved(reader, dir)) => result[1].baseClass = DynamicBase

\* C2 witness: a 3-level chain whose middle class has no metadata was flattened,
\* the top class having metadata of its own
C2_Witness ==
    /\ Done
    /\ dir = 1
    /\ reader[1].baseClass = 2
    /\ ~HasMetadata(reader, 2)
    /\ HasMetadata(reader, 3)
    /\ result[1].baseClass = DynamicBase

\* C3: the result's baseClass is null or 'dynamic', never a class reference, and
\* it is null when every base class of the chain has metadata and no level is
\* 'dynamic'.
C3_BaseNullOrDynamic ==
    Done =>
        /\ result[1].baseClass \in {NullBase, DynamicBase}
        /\ ~ChainUnresolved(reader, dir) => result[1].baseClass = NullBase

\* C3 witness: a fully resolved chain of three levels was flattened to baseClass null
C3_Witness ==
    /\ Done
    /\ Len(LevelsFrom(reader, dir)) = 3
    /\ ~ChainUnresolved(reader, dir)
    /\ result[1].baseClass = NullBase

\* The level of the chain closest to the directive that declares key k in `field`
FirstDeclaring(r, levels, field, k) ==
    levels[CHOOSE i \in 1..Len(levels) :
              /\ k \in DOMAIN r[levels[i]][field]
              /\ \A j \in 1..(i - 1) : k \notin DOMAIN r[levels[j]][field]]

\* C4: in the flattened inputs and outputs, a key declared at several levels
\* keeps the entry of the most derived level, and every key declared at some
\* reachable level is kept with that level's entry.
C4_DerivedEntryWins ==
    Done =>
        LET levels == LevelsFrom(reader, dir) IN
        \A field \in MapFields :
            /\ DOMAIN result[1][field] =
                  UNION {DOMAIN reader[l][field] : l \in Range(levels)}
            /\ \A k \in DOMAIN result[1][field] :
                  result[1][field][k] =
                      reader[FirstDeclaring(reader, levels, field, k)][field][k]

\* C4 witness: the directive and its base class declare the same input with
\* different entries, and a key is declared by a base class only
C4_Witness ==
    /\ Done
    /\ dir = 1
    /\ Len(LevelsFrom(reader, 1)) = 3
    /\ "p" \in DOMAIN reader[1].inputs
    /\ "p" \in DOMAIN reader[2].inputs
    /\ reader[1].inputs["p"] # reader[2].inputs["p"]

\* C5: for a directive with a base class, each of the four flattened field sets
\* is the union of that set over the levels of the chain the reader can reach.
C5_FieldSetsAreUnions ==
    (Done /\ reader[dir].baseClass # NullBase) =>
        \A field \in SetFields :
            result[1][field] =
                UNION {reader[l][field] : l \in Range(LevelsFrom(reader, dir))}

\* C5 witness: a field is classified by a base class only and reaches the result
C5_Witness ==
    /\ Done
    /\ Len(LevelsFrom(reader, dir)) >= 2
    /\ reader[dir].restrictedInputFields = {}
    /\ result[1].restrictedInputFields # {}

\* C6: no step of a call changes a metadata record held by the reader.
C6_ReaderUnchanged == [][reader' = reader]_vars

\* C6 witness: a call has returned a record that differs from the directive's own,
\* built from the declarations of its base classes
C6_Witness ==
    /\ Done
    /\ Len(LevelsFrom(reader, dir)) >= 2
    /\ \E f \in SetFields : result[1][f] # reader[dir][f]

\* C7: flattening a record that is itself a flattened result (baseClass null
\* or 'dynamic') returns a record equal to it.  Every flattened result the
\* model produces is one of the records Init draws for a class.
C7_Idempotent ==
    (Done /\ reader[dir].baseClass \in {NullBase, DynamicBase}) =>
        result[1] = reader[dir]

\* C7 witness: a record with baseClass 'dynamic' and a declaration was flattened
C7_Witness ==
    /\ Done
    /\ reader[dir].baseClass = DynamicBase
    /\ \/ reader[dir].outputs # EmptyMapping
       \/ reader[dir].stringLiteralInputFields # {}

\* What is left to do in a call: a variant of the walk
Measure ==
    CASE pc = "enter" -> 2 * NumClasses + 2 - Len(stack)
      [] pc = "merge" -> Len(stack) + 1
      [] pc = "return" -> 1
      [] OTHER -> 0

\* addMetadata was invoked for exactly the levels of the chain walked so far
VisitedIsChain ==
    LET levels == LevelsFrom(reader, dir) IN
    /\ \A i, j \in 1..Len(visited) : visited[i] = visited[j] => i = j
    /\ pc = "enter" => /\ Len(visited) <= Len(levels)
                       /\ visited = SubSeq(levels, 1, Len(visited))
    /\ (pc \in {"merge", "return"} \/ (Done /\ reader[dir].baseClass # NullBase))
          => visited = levels

\* C8: on a finite acyclic chain the call terminates: every step of a call in
\* progress decreases a natural-number measure and a call in progress can
\* always take a step; addMetadata is invoked once per level, and the walk
\* stops at the first level with baseClass null, 'dynamic' or a base class
\* without metadata.
C8_Terminates ==
    /\ [](VisitedIsChain /\ Measure >= 0)
    /\ [](InProgress => ENABLED (AddMetadataEnter \/ AddMetadataMerge \/ Return))
    /\ [][InProgress => Measure' < Measure]_vars

\* C8 witness: the walk of a three-level chain stopped at a level without
\* metadata for its base class and the call returned
C8_Witness ==
    /\ Done
    /\ visited = <<1, 2, 3>>
    /\ reader[3].baseClass = NumClasses + 1

-----------------------------------------------------------------------------
(* Template ASTs *)

\* Width of the text runs of the generated templates
MaxText == 2

Span(a, b) == [start |-> a, end |-> b]

\* An absent span (endSourceSpan: null, valueSpan: undefined)
NoSpan == Span(-1, -1)

TemplateKinds == {"Element", "Template", "Content", "Variable", "Reference",
                  "TextAttribute", "BoundAttribute", "BoundEvent", "Text",
                  "BoundText", "Icu"}

ExpressionKinds == {"ASTWithSource", "Interpolation", "PropertyRead",
                    "ImplicitReceiver"}

\* Node kinds that carry a keySpan property
KeyedKinds == {"TextAttribute", "BoundAttribute", "BoundEvent", "Reference", "Variable"}

\* A node of the tree; `parent` is the id of the node that holds it in its
\* list `slot` ("" for a root node)
Node(id, kind, parent, slot, name, src, endSrc, key, value) ==
    [id |-> id, kind |-> kind, parent |-> parent, slot |-> slot, name |-> name,
     sourceSpan |-> src, endSourceSpan |-> endSrc, keySpan |-> key,
     valueSpan |-> value]

Plain(id, kind, parent, slot, src) ==
    Node(id, kind, parent, slot, "", src, NoSpan, NoSpan, NoSpan)

\* The expression `y` at offset v: ASTWithSource(PropertyRead(ImplicitReceiver, y))
ReadExpr(owner, slot, v) ==
    <<Plain(owner \o "/src", "ASTWithSource", owner, slot, Span(v, v + 1)),
      Plain(owner \o "/read", "PropertyRead", owner \o "/src", "ast", Span(v, v + 1)),
      Plain(owner \o "/recv", "ImplicitReceiver", owner \o "/read", "receiver", Span(v, v))>>

\* The text `..{{z}}` from b to e with z at offset v:
\* ASTWithSource(Interpolation([PropertyRead(ImplicitReceiver, z)]))
InterpolationExpr(owner, b, e, v) ==
    <<Plain(owner \o "/src", "ASTWithSource", owner, "value", Span(b, e)),
      Plain(owner \o "/interp", "Interpolation", owner \o "/src", "ast", Span(b, e)),
      Plain(owner \o "/read", "PropertyRead", owner \o "/interp", "expressions", Span(v, v + 1)),
      Plain(owner \o "/recv", "ImplicitReceiver", owner \o "/read", "receiver", Span(v, v))>>

AttrConfigs == {"none", "text", "bare", "input", "twoway", "event", "ref"}

\* Length in the source of k="v", k, [x]="y", [(x)]="y", (c)="f", #r
AttrLen(cfg) ==
    CASE cfg = "text" -> 5
      [] cfg = "bare" -> 1
      [] cfg = "input" -> 7
      [] cfg = "twoway" -> 9
      [] cfg = "event" -> 7
      [] cfg = "ref" -> 2
      [] OTHER -> 0

\* The nodes of the attribute written at offset a of element el
AttrNodes(cfg, el, a) ==
    CASE cfg = "text" ->
           <<Node("ta", "TextAttribute", el, "attributes", "k",
                  Span(a, a + 5), NoSpan, Span(a, a + 1), Span(a + 3, a + 4))>>
      [] cfg = "bare" ->
           <<Node("ta", "TextAttribute", el, "attributes", "k",
                  Span(a, a + 1), NoSpan, Span(a, a + 1), NoSpan)>>
      [] cfg = "input" ->
           <<Node("ba", "BoundAttribute", el, "inputs", "x",
                  Span(a, a + 7), NoSpan, Span(a + 1, a + 2), Span(a + 5, a + 6))>>
           \o ReadExpr("ba", "value", a + 5)
      [] cfg = "twoway" ->
           <<Node("ba", "BoundAttribute", el, "inputs", "x",
                  Span(a, a + 9), NoSpan, Span(a + 2, a + 3), Span(a + 7, a + 8))>>
           \o ReadExpr("ba", "value", a + 7)
           \o <<Node("be", "BoundEvent", el, "outputs", "xChange",
                  Span(a, a + 9), NoSpan, Span(a + 2, a + 3), NoSpan)>>
           \o ReadExpr("be", "handler", a + 7)
      [] cfg = "event" ->
           <<Node("be", "BoundEvent", el, "outputs", "c",
                  Span(a, a + 7), NoSpan, Span(a + 1, a + 2), NoSpan)>>
           \o ReadExpr("be", "handler", a + 5)
      [] cfg = "ref" ->
           <<Node("rf", "Reference", el, "references", "r",
                  Span(a, a + 2), NoSpan, Span(a + 1, a + 2), NoSpan)>>
      [] OTHER -> << >>

ChildConfigs == {"none", "text", "bound", "elem", "text+elem", "void", "void+bound"}

\* Length in the source of the children: t, t{{z}}, <i>t</i>, t<i></i>, <br>,
\* <br>t{{z}}
ChildLen(cfg, w) ==
    CASE cfg = "text" -> w
      [] cfg = "bound" -> w + 4
      [] cfg = "elem" -> w + 7
      [] cfg = "text+elem" -> w + 7
      [] cfg = "void" -> 4
      [] cfg = "void+bound" -> w + 8
      [] OTHER -> 0

\* The children written from offset c on inside element el
ChildNodes(cfg, el, c, w) ==
    CASE cfg = "text" ->
           <<Plain("ct", "Text", el, "children", Span(c, c + w))>>
      [] cfg = "bound" ->
           <<Plain("bt", "BoundText", el, "children", Span(c, c + w + 4))>>
           \o InterpolationExpr("bt", c, c + w + 4, c + w + 1)
      [] cfg = "elem" ->
           <<Node("I", "Element", el, "children", "i",
                  Span(c, c + 3), Span(c + 3 + w, c + 7 + w), NoSpan, NoSpan),
             Plain("it", "Text", "I", "children", Span(c + 3, c + 3 + w))>>
      [] cfg = "text+elem" ->
           <<Plain("ct", "Text", el, "children", Span(c, c + w)),
             Node("I", "Element", el, "children", "i",
                  Span(c + w, c + w + 3), Span(c + w + 3, c + w + 7), NoSpan, NoSpan)>>
      [] cfg = "void" ->
           <<Node("I", "Element", el, "children", "br",
                  Span(c, c + 4), NoSpan, NoSpan, NoSpan)>>
      [] cfg = "void+bound" ->
           <<Node("I", "Element", el, "children", "br",
                  Span(c, c + 4), NoSpan, NoSpan, NoSpan),
             Plain("bt", "BoundText", el, "children", Span(c + 4, c + w + 8))>>
           \o InterpolationExpr("bt", c + 4, c + w + 8, c + w + 5)
      [] OTHER -> << >>

\* The tree of the template
\*    lead <e *d="c" attr>children</e> trail
\* where the text runs lead and trail (absent or MaxText long), the structural
\* directive (wrap), the attribute, the children and the end tag may be absent.
Document(lead, wrap, attr, child, w, endTag, trail) ==
    LET s0 == lead
        wl == IF wrap THEN 7 ELSE 0
        al == IF attr = "none" THEN 0 ELSE 1 + AttrLen(attr)
        a  == s0 + 2 + wl + 1
        te == s0 + 2 + wl + al + 1
        ce == te + ChildLen(child, w)
        endSrc == IF endTag THEN Span(ce, ce + 4) ELSE NoSpan
        ee == IF endTag THEN ce + 4 ELSE te
        top == IF wrap THEN "W" ELSE ""
    IN  (IF lead > 0 THEN <<Plain("lead", "Text", "", "children", Span(0, lead))>>
                     ELSE << >>)
        \o (IF wrap
              THEN <<Node("W", "Template", "", "children", "e",
                          Span(s0, te), endSrc, NoSpan, NoSpan),
                     Node("sd", "BoundAttribute", "W", "templateAttrs", "d",
                          Span(s0 + 3, s0 + 9), NoSpan,
                          Span(s0 + 4, s0 + 5), Span(s0 + 7, s0 + 8))>>
                   \o ReadExpr("sd", "value", s0 + 7)
              ELSE << >>)
        \o <<Node("E", "Element", top, "children", "e",
                  Span(s0, te), endSrc, NoSpan, NoSpan)>>
        \o AttrNodes(attr, "E", a)
        \o ChildNodes(child, "E", te, w)
        \o (IF trail > 0 THEN <<Plain("trail", "Text", "", "children", Span(ee, ee + trail))>>
                      ELSE << >>)

\* The templates the model looks positions up in.  An element without end
\* tag has no children: every node lies within the span of its parent.
Documents ==
    {Document(lead, wrap, attr, child, w, endTag, trail) :
        lead \in {0, MaxText}, wrap \in BOOLEAN, attr \in AttrConfigs,
        child \in ChildConfigs, w \in 1..MaxText, endTag \in {TRUE},
        trail \in {0, MaxText}}
    \cup
    {Document(lead, wrap, attr, "none", 1, FALSE, trail) :
        lead \in {0, MaxText}, wrap \in BOOLEAN, attr \in AttrConfigs,
        trail \in {0, MaxText}}

-----------------------------------------------------------------------------
(* findNodeAtPosition *)

\* isWithin with the comparison of the end left out
IsWithinNoEnd(pos, span) == span.start <= pos

\* isWithin with < for <= at the end
IsWithinBeforeEnd(pos, span) == span.start <= pos /\ pos < span.end

\* isWithin: both ends are inclusive
IsWithin(pos, span) == span.start <= pos /\ pos <= span.end

\* getSpanIncludingEndTag with the end tag left out
GetSpanWithoutEndTag(n) == n.sourceSpan

\* getSpanIncludingEndTag
GetSpanIncludingEndTag(n) ==
    IF n.kind \in {"Element", "Template"} /\ n.endSourceSpan # NoSpan
    THEN Span(n.sourceSpan.start, n.endSourceSpan.end)
    ELSE n.sourceSpan

\* utils.isTemplateNode
IsTemplateNode(n) == n.kind \in TemplateKinds

\* utils.isTemplateNodeWithKeyAndValue
IsTemplateNodeWithKeyAndValue(n) == IsTemplateNode(n) /\ n.kind \in KeyedKinds

\* The node with the given id
NodeOf(tree, id) == CHOOSE n \in {tree[i] : i \in 1..Len(tree)} : n.id = id

\* The ids of the nodes a node holds in one of its lists, in the list's order
IdsIn(tree, id, slot) ==
    LET held == SelectSeq(tree, LAMBDA m : m.parent = id /\ m.slot = slot)
    IN  [i \in 1..Len(held) |-> held[i].id]

\* The visit() calls with visitBoundText making none for the value of the text
VisitOrderTextValueLeft(tree, n) ==
    CASE n.kind = "Element" ->
           IdsIn(tree, n.id, "attributes") \o IdsIn(tree, n.id, "inputs")
           \o IdsIn(tree, n.id, "outputs") \o IdsIn(tree, n.id, "references")
           \o IdsIn(tree, n.id, "children")
      [] n.kind = "Template" ->
           IdsIn(tree, n.id, "attributes") \o IdsIn(tree, n.id, "inputs")
           \o IdsIn(tree, n.id, "outputs") \o IdsIn(tree, n.id, "templateAttrs")
           \o IdsIn(tree, n.id, "references") \o IdsIn(tree, n.id, "variables")
           \o IdsIn(tree, n.id, "children")
      [] n.kind = "Content" -> IdsIn(tree, n.id, "attributes")
      [] n.kind = "BoundAttribute" -> IdsIn(tree, n.id, "value")
      [] n.kind = "BoundEvent" -> IdsIn(tree, n.id, "handler")
      [] OTHER -> << >>

\* The visit() calls node.visit(visitor) makes, in order (lines 68-139)
VisitOrder(tree, n) ==
    CASE n.kind = "Element" ->
           IdsIn(tree, n.id, "attributes") \o IdsIn(tree, n.id, "inputs")
           \o IdsIn(tree, n.id, "outputs") \o IdsIn(tree, n.id, "references")
           \o IdsIn(tree, n.id, "children")
      [] n.kind = "Template" ->
           IdsIn(tree, n.id, "attributes") \o IdsIn(tree, n.id, "inputs")
           \o IdsIn(tree, n.id, "outputs") \o IdsIn(tree, n.id, "templateAttrs")
           \o IdsIn(tree, n.id, "references") \o IdsIn(tree, n.id, "variables")
           \o IdsIn(tree, n.id, "children")
      [] n.kind = "Content" -> IdsIn(tree, n.id, "attributes")
      [] n.kind = "BoundAttribute" -> IdsIn(tree, n.id, "value")
      [] n.kind = "BoundEvent" -> IdsIn(tree, n.id, "handler")
      [] n.kind = "BoundText" -> IdsIn(tree, n.id, "value")
      [] n.kind = "Icu" -> IdsIn(tree, n.id, "vars") \o IdsIn(tree, n.id, "placeholders")
      [] OTHER -> << >>

\* RecursiveAstVisitor: the visit() calls an expression node makes for its operands
ExpressionOperands(tree, n) ==
    CASE n.kind = "PropertyRead" -> IdsIn(tree, n.id, "receiver")
      [] n.kind = "Interpolation" -> IdsIn(tree, n.id, "expressions")
      [] n.kind = "ASTWithSource" -> IdsIn(tree, n.id, "ast")
      [] OTHER -> << >>

\* Lines 155-160 with the ASTWithSource kept
UnwrappedNot(tree, n) == n

\* Lines 155-160: an ASTWithSource stands for the node it wraps
Unwrapped(tree, n) ==
    IF n.kind = "ASTWithSource" THEN NodeOf(tree, IdsIn(tree, n.id, "ast")[1]) ELSE n

\* Lines 108-109 with no event taken for that of a two-way binding
IsTwoWayBindingNever(tree, p, event) == FALSE

\* Lines 108-109
IsTwoWayBinding(tree, p, event) ==
    \E i \in 1..Len(p) :
        /\ NodeOf(tree, p[i]).kind = "BoundAttribute"
        /\ event.name = NodeOf(tree, p[i]).name \o "Change"

\* Line 55 with >= for >
IsLargerOrEqual(length, lastLength) == length >= lastLength

\* Line 55: length > lastLength
IsLarger(length, lastLength) == length > lastLength

\* Lines 50-55: the node at hand has a larger span than the last node of the path
LargerThanLast(tree, p, n) ==
    /\ Len(p) > 0
    /\ LET span == GetSpanIncludingEndTag(n)
           last == NodeOf(tree, p[Len(p)])
           lastSpan == IF IsTemplateNode(last) THEN GetSpanIncludingEndTag(last)
                                               ELSE last.sourceSpan
       IN  IsLarger(span.end - span.start, lastSpan.end - lastSpan.start)

\* The templates a lookup is made in
InitFind ==
    /\ reader = [c \in {} |-> 0]
    /\ FlattenIdle
    /\ ast \in Documents
    /\ FindIdle
    /\ element = << >>
    /\ SerializeIdle
    /\ tpl = << >>
    /\ TemplateIdle
    /\ PipeIdle
    /\ directive = ""
    /\ clauses = << >>
    /\ MicroIdle

\* The positions a template is asked about: every offset of its source and
\* one beyond its end
Positions(tree) ==
    LET ends == {GetSpanIncludingEndTag(tree[i]).end : i \in 1..Len(tree)}
    IN  0..((CHOOSE m \in ends : \A x \in ends : x <= m) + 1)

\* Lines 21-23: a visitor is made and visitAll(ast) begins with the root nodes
Start ==
    /\ fpc \in {"idle", "done"}
    /\ \E pos \in Positions(ast) : position' = pos
    /\ fpc' = "visit"
    /\ todo' = IdsIn(ast, "", "children")
    /\ path' = << >>
    /\ pushed' = {}
    /\ found' = << >>
    /\ UNCHANGED ast
    /\ UNCHANGED <<flattenVars, serializeVars, templateVars,
                 pipeVars, microVars>>

\* The node the next visit() call is made for
Current == NodeOf(ast, todo[1])

\* Lines 47-49: the position is outside the node
VisitOutside ==
    /\ fpc = "visit" /\ todo # << >> /\ IsTemplateNode(Current)
    /\ ~IsWithin(position, GetSpanIncludingEndTag(Current))
    /\ todo' = Tail(todo)
    /\ UNCHANGED <<ast, position, fpc, path, pushed, found>>
    /\ UNCHANGED <<flattenVars, serializeVars, templateVars,
                 pipeVars, microVars>>

\* Lines 50-61: the node is larger than the last node found and is not entered
VisitLarger ==
    /\ fpc = "visit" /\ todo # << >> /\ IsTemplateNode(Current)
    /\ IsWithin(position, GetSpanIncludingEndTag(Current))
    /\ LargerThanLast(ast, path, Current)
    /\ todo' = Tail(todo)
    /\ UNCHANGED <<ast, position, fpc, path, pushed, found>>
    /\ UNCHANGED <<flattenVars, serializeVars, templateVars,
                 pipeVars, microVars>>

\* Lines 63-64 and the node's visit method (lines 68-139): the node is pushed
\* and the visit() calls for what it holds are made next; the event of a
\* two-way binding is popped again (lines 108-118)
VisitEnter ==
    /\ fpc = "visit" /\ todo # << >> /\ IsTemplateNode(Current)
    /\ IsWithin(position, GetSpanIncludingEndTag(Current))
    /\ ~LargerThanLast(ast, path, Current)
    /\ pushed' = pushed \cup {Current.id}
    /\ IF Current.kind = "BoundEvent" /\ IsTwoWayBinding(ast, Append(path, Current.id), Current)
       THEN /\ path' = path
            /\ todo' = Tail(todo)
       ELSE /\ path' = Append(path, Current.id)
            /\ todo' = VisitOrder(ast, Current) \o Tail(todo)
    /\ UNCHANGED <<ast, position, fpc, found>>
    /\ UNCHANGED <<flattenVars, serializeVars, templateVars,
                 pipeVars, microVars>>

\* ExpressionVisitor.visit, lines 154-167: outside the node, or the implicit receiver
VisitExprSkip ==
    /\ fpc = "visit" /\ todo # << >> /\ ~IsTemplateNode(Current)
    /\ LET node == Unwrapped(ast, Current)
       IN  ~(IsWithin(position, node.sourceSpan) /\ node.kind # "ImplicitReceiver")
    /\ todo' = Tail(todo)
    /\ UNCHANGED <<ast, position, fpc, path, pushed, found>>
    /\ UNCHANGED <<flattenVars, serializeVars, templateVars,
                 pipeVars, microVars>>

\* ExpressionVisitor.visit, lines 154-167: the node is pushed and its operands
\* are visited
VisitExprEnter ==
    /\ fpc = "visit" /\ todo # << >> /\ ~IsTemplateNode(Current)
    /\ LET node == Unwrapped(ast, Current)
       IN  /\ IsWithin(position, node.sourceSpan)
           /\ node.kind # "ImplicitReceiver"
           /\ path' = Append(path, node.id)
           /\ pushed' = pushed \cup {node.id}
           /\ todo' = ExpressionOperands(ast, node) \o Tail(todo)
    /\ UNCHANGED <<ast, position, fpc, found>>
    /\ UNCHANGED <<flattenVars, serializeVars, templateVars,
                 pipeVars, microVars>>

\* Lines 28-35: the candidate is a node with key and value and the position is
\* in neither
Suppressed(pos, candidate) ==
    /\ IsTemplateNodeWithKeyAndValue(candidate)
    /\ ~IsWithin(pos, candidate.keySpan)
    /\ candidate.valueSpan # NoSpan /\ ~IsWithin(pos, candidate.valueSpan)

\* Lines 24-37: the last node of the path is the candidate
Finish ==
    /\ fpc = "visit" /\ todo = << >>
    /\ found' = IF path = << >> \/ Suppressed(position, NodeOf(ast, path[Len(path)]))
                THEN << >>
                ELSE <<path[Len(path)]>>
    /\ fpc' = "done"
    /\ UNCHANGED <<ast, position, todo, path, pushed>>
    /\ UNCHANGED <<flattenVars, serializeVars, templateVars,
                 pipeVars, microVars>>

NextFind ==
    Start \/ VisitOutside \/ VisitLarger \/ VisitEnter \/ VisitExprSkip
          \/ VisitExprEnter \/ Finish

SpecFind == InitFind /\ [][NextFind]_vars

-----------------------------------------------------------------------------
(* Claims about findNodeAtPosition *)

\* The span of a node as the claims speak of it: for an element or template
\* with an end tag, from the start of the opening tag to the end of the end tag
NodeSpan(n) ==
    IF n.kind \in {"Element", "Template"} /\ n.endSourceSpan.end >= 0
    THEN [start |-> n.sourceSpan.start, end |-> n.endSourceSpan.end]
    ELSE n.sourceSpan

\* The offset lies in the span, its two ends included
Contains(span, offset) == span.start <= offset /\ offset <= span.end

RECURSIVE IsBelow(_, _, _)
\* Node m lies below the node with the given id in the tree
IsBelow(tree, m, id) ==
    /\ m.parent # ""
    /\ \/ m.parent = id
       \/ IsBelow(tree, NodeOf(tree, m.parent), id)

NodesOf(tree) == {tree[i] : i \in 1..Len(tree)}

\* A lookup that has returned
FindDone == fpc = "done"

\* C9: a returned node's span (with the end tag, for elements and templates)
\* contains the offset, and no node below it in the tree, other than an
\* implicit receiver, has a span that contains the offset.
C9_MostSpecificNode ==
    (FindDone /\ found # << >>) =>
        LET n == NodeOf(ast, found[1]) IN
        /\ Contains(NodeSpan(n), position)
        /\ \A m \in NodesOf(ast) :
              (IsBelow(ast, m, n.id) /\ m.kind # "ImplicitReceiver")
                 => ~Contains(NodeSpan(m), position)

\* C9 witness: the lookup went through a template, its element and a bound
\* attribute down to the expression of the attribute's value, past the
\* implicit receiver that also contains the offset
C9_Witness ==
    /\ FindDone
    /\ found = <<"ba/read">>
    /\ path = <<"W", "E", "ba", "ba/read">>
    /\ Contains(NodeOf(ast, "ba/recv").sourceSpan, position)

\* C10: the lookup returns undefined when the offset is outside the span of
\* every root node, and every node ever pushed on the path has a span that
\* contains the offset.
C10_OnlyContainingNodes ==
    /\ \A id \in pushed : Contains(NodeSpan(NodeOf(ast, id)), position)
    /\ (FindDone /\ \A r \in NodesOf(ast) :
                       r.parent = "" => ~Contains(NodeSpan(r), position))
          => found = << >>

\* C10 witness: a lookup beyond the end of a template with several root nodes
\* has returned undefined
C10_Witness ==
    /\ FindDone
    /\ found = << >>
    /\ pushed = {}
    /\ Len(IdsIn(ast, "", "children")) = 3
    /\ \A r \in NodesOf(ast) : r.parent = "" => ~Contains(NodeSpan(r), position)

\* The offset lies in the span and at neither of its ends
StrictlyInside(span, offset) == span.start < offset /\ offset < span.end

\* The expression nodes of an interpolation: the Interpolation node and the
\* nodes below it, the implicit receivers left out
InterpolationNodes(tree, interp) ==
    {m \in NodesOf(tree) :
        /\ m.id = interp.id \/ IsBelow(tree, m, interp.id)
        /\ m.kind # "ImplicitReceiver"}

\* C11 as stated: for every offset strictly inside the span of a text node
\* without expressions the lookup returns that text node, and for every
\* offset inside the span of an interpolation, its two ends included, it
\* returns an expression node of the interpolation.
C11_InterpolationAtEveryOffset ==
    FindDone =>
        \A n \in NodesOf(ast) :
            /\ (n.kind = "Text" /\ StrictlyInside(n.sourceSpan, position))
                  => found = <<n.id>>
            /\ (n.kind = "Interpolation" /\ Contains(n.sourceSpan, position))
                  => \E m \in InterpolationNodes(ast, n) : found = <<m.id>>

\* C11: for every offset strictly inside the span of a text node without
\* expressions the lookup returns that text node; for every offset strictly
\* inside the span of an interpolation it returns the property read that
\* contains the offset and otherwise the Interpolation node, never the bound
\* text; at an end of the interpolation's span it returns a node whose span
\* contains the offset, which may be a neighbouring node.
C11_TextAndInterpolation ==
    FindDone =>
        \A n \in NodesOf(ast) :
            /\ (n.kind = "Text" /\ StrictlyInside(n.sourceSpan, position))
                  => found = <<n.id>>
            /\ (n.kind = "Interpolation" /\ StrictlyInside(n.sourceSpan, position))
                  => LET reads == {m \in InterpolationNodes(ast, n) :
                                      /\ m.kind = "PropertyRead"
                                      /\ Contains(m.sourceSpan, position)}
                     IN  IF reads = {} THEN found = <<n.id>>
                                       ELSE \E m \in reads : found = <<m.id>>
            /\ (n.kind = "Interpolation" /\ Contains(n.sourceSpan, position))
                  => /\ found # << >>
                     /\ found # <<NodeOf(ast, n.parent).parent>>
                     /\ Contains(NodeSpan(NodeOf(ast, found[1])), position)

\* C11 witness: an offset of a bound text that precedes the z of {{z}} and is
\* not the start of the text returned the Interpolation node
C11_Witness ==
    /\ FindDone
    /\ found = <<"bt/interp">>
    /\ path[Len(path) - 1] = "bt"
    /\ StrictlyInside(NodeOf(ast, "bt/interp").sourceSpan, position)
    /\ position < NodeOf(ast, "bt/read").sourceSpan.start

\* An element or template with an end tag
HasEndTag(n) == n.kind \in {"Element", "Template"} /\ n.endSourceSpan # NoSpan

\* The offset lies from the end of the opening tag of n to the end of its end
\* tag and in none of the nodes n holds
AfterOpeningTag(tree, n, offset) ==
    /\ HasEndTag(n)
    /\ n.sourceSpan.end <= offset /\ offset <= n.endSourceSpan.end
    /\ \A m \in NodesOf(tree) : m.parent = n.id => ~Contains(NodeSpan(m), offset)

\* C12 as stated: for an element or template with an end tag, every offset
\* from the end of its opening tag to the end of its end tag that is in none
\* of its children returns the element or template itself.
C12_EveryOffsetToEndTag ==
    FindDone =>
        \A n \in NodesOf(ast) :
            AfterOpeningTag(ast, n, position) => found = <<n.id>>

\* C12: for an element or template with an end tag, every offset from the
\* end of its opening tag to the end of its end tag that is in none of its
\* children and in no node that follows it in the document (a node that is
\* neither below it nor one it lies below) returns the element or template
\* itself.
C12_EndTagBelongsToElement ==
    FindDone =>
        \A n \in NodesOf(ast) :
            (/\ AfterOpeningTag(ast, n, position)
             /\ \A m \in NodesOf(ast) :
                    (m.id # n.id /\ ~IsBelow(ast, m, n.id) /\ ~IsBelow(ast, n, m.id))
                        => ~Contains(NodeSpan(m), position))
                => found = <<n.id>>

\* C12 witness: an offset in the end tag of an element with children, beyond
\* the span of its opening tag, returned the element
C12_Witness ==
    /\ FindDone
    /\ found = <<"E">>
    /\ IdsIn(ast, "E", "children") # << >>
    /\ position > NodeOf(ast, "E").endSourceSpan.start
    /\ position > NodeOf(ast, "E").sourceSpan.end

\* The length of the span visit() compares (lines 48-54)
LengthOf(n) == NodeSpan(n).end - NodeSpan(n).start

\* visit() is called for a template node whose span contains the offset while
\* the path holds a node
VisitsCandidate ==
    /\ fpc = "visit" /\ todo # << >> /\ path # << >>
    /\ IsTemplateNode(Current)
    /\ Contains(NodeSpan(Current), position)

\* C13 as stated: a template node whose span contains the offset is skipped
\* unless its span is strictly smaller than the span of the last node of the
\* path, so of two candidates with spans of equal length the one visited
\* first stays the last node of the path.
C13_SkippedUnlessSmaller ==
    [][(VisitsCandidate
         /\ LengthOf(Current) >= LengthOf(NodeOf(ast, path[Len(path)])))
          => (pushed' = pushed /\ path' = path)]_vars

\* C13: a template node whose span contains the offset is skipped exactly
\* when its span is strictly larger than the span of the last node of the
\* path; a node with a span of equal length is entered and becomes the last
\* node of the path, except the event of a two-way binding, which is pushed
\* and removed again.
C13_SkippedOnlyIfLarger ==
    [][VisitsCandidate =>
          LET last == NodeOf(ast, path[Len(path)]) IN
          /\ (LengthOf(Current) > LengthOf(last))
                => (pushed' = pushed /\ path' = path)
          /\ (LengthOf(Current) <= LengthOf(last))
                => /\ Current.id \in pushed'
                   /\ \/ path' = Append(path, Current.id)
                      \/ /\ path' = path
                         /\ Current.kind = "BoundEvent"
                         /\ IsTwoWayBinding(ast, path, Current)]_vars

\* C13 witness: the element of a template was entered although its span is as
\* long as the template's, and was returned
C13_Witness ==
    /\ FindDone
    /\ found = <<"E">>
    /\ path = <<"W", "E">>
    /\ LengthOf(NodeOf(ast, "E")) = LengthOf(NodeOf(ast, "W"))

\* The element of the template carries a two-way binding: a bound attribute
\* and a bound event named after it with the same span
HasTwoWayPair(tree) ==
    \E b \in NodesOf(tree), v \in NodesOf(tree) :
        /\ b.kind = "BoundAttribute" /\ v.kind = "BoundEvent"
        /\ b.parent = v.parent
        /\ v.name = b.name \o "Change"
        /\ v.sourceSpan = b.sourceSpan

\* C14 as stated: for every offset in the span of a two-way binding the
\* lookup returns the bound attribute or an expression node of its value.
C14_AttributeAtEveryOffset ==
    (FindDone /\ HasTwoWayPair(ast)
       /\ Contains(NodeOf(ast, "ba").sourceSpan, position))
        => \E m \in NodesOf(ast) :
              /\ m.id = "ba" \/ IsBelow(ast, m, "ba")
              /\ found = <<m.id>>

\* C14: for a two-way binding the lookup never returns the bound event; for
\* every offset in the span of the binding that lies in the key span or the
\* value span of the bound attribute the result is the bound attribute or an
\* expression node of its value, and for the other offsets of the span there
\* is no result.
C14_EventNeverReturned ==
    (FindDone /\ HasTwoWayPair(ast)) =>
        LET b == NodeOf(ast, "ba") IN
        /\ found # <<"be">>
        /\ Contains(b.sourceSpan, position) =>
              IF Contains(b.keySpan, position) \/ Contains(b.valueSpan, position)
              THEN \E m \in NodesOf(ast) :
                      /\ m.id = "ba" \/ IsBelow(ast, m, "ba")
                      /\ found = <<m.id>>
              ELSE found = << >>

\* C14 witness: at an offset in the name of a two-way binding the event was
\* pushed and removed, and the bound attribute was returned
C14_Witness ==
    /\ FindDone
    /\ HasTwoWayPair(ast)
    /\ "be" \in pushed
    /\ path = <<"E", "ba">>
    /\ found = <<"ba">>

\* C15: when the candidate, the last node of the path, is a node with a key
\* span and the offset lies neither in its key span nor in a value span of
\* it, the lookup returns no node, whether the node has a value span or not.
C15_NoMatchOutsideKeyAndValue ==
    (FindDone /\ path # << >>) =>
        LET candidate == NodeOf(ast, path[Len(path)]) IN
        (/\ IsTemplateNodeWithKeyAndValue(candidate)
         /\ ~Contains(candidate.keySpan, position)
         /\ candidate.valueSpan = NoSpan \/ ~Contains(candidate.valueSpan, position))
            => found = << >>

\* The nodes that were ever pushed on the path, are on it or were returned
Surfaced == pushed \cup Range(path) \cup Range(found)

\* C16: an implicit receiver is never pushed on the path and never returned,
\* although its span may contain the offset, and an ASTWithSource is never on
\* the path: the node it wraps takes its place.
C16_NoImplicitReceiverNoWrapper ==
    \A id \in Surfaced :
        NodeOf(ast, id).kind \notin {"ImplicitReceiver", "ASTWithSource"}

\* C16 witness: the lookup went through the wrapped value of a bound text to
\* a property read at the offset of its implicit receiver, and neither the
\* wrapper nor the receiver was pushed
C16_Witness ==
    /\ FindDone
    /\ path = <<"E", "bt", "bt/interp", "bt/read">>
    /\ found = <<"bt/read">>
    /\ Contains(NodeOf(ast, "bt/recv").sourceSpan, position)
    /\ Contains(NodeOf(ast, "bt/src").sourceSpan, position)

\* Span a lies within span b
SpanWithin(a, b) == b.start <= a.start /\ a.end <= b.end

\* Span a ends where span b starts or before
SpanBefore(a, b) == a.end <= b.start

-----------------------------------------------------------------------------
(* serializeTranslationMessage *)

\* The largest number of nodes inside an element
MaxNodes == 3

\* What stands inside the element: text, something rendered as a placeholder,
\* markup the parser reports an error for, a node the serializer throws on
NodeForms == {"text", "placeholder", "malformed", "unsupported"}

Elements == UNION {[1..n -> NodeForms] : n \in 0..MaxNodes}

ParseError(at, msg) == [at |-> at, msg |-> msg]

\* translation_utils.parseInnerRange: the nodes that could be parsed, each
\* with its place in the element, and one error per piece of malformed markup
ParseInnerRange(el) ==
    LET all == [i \in 1..Len(el) |-> [at |-> i, form |-> el[i]]]
        bad == SelectSeq(all, LAMBDA n : n.form = "malformed")
    IN  [rootNodes |-> SelectSeq(all, LAMBDA n : n.form # "malformed"),
         errors |-> [i \in 1..Len(bad) |-> ParseError(bad[i].at, "parse")]]

\* MessageSerializer.serialize throws on a node it has no rendering for
SerializeThrows(nodes) == \E i \in 1..Len(nodes) : nodes[i].form = "unsupported"

\* The error MessageSerializer.serialize throws: at the first such node
ThrownError(nodes) ==
    LET i == CHOOSE k \in 1..Len(nodes) :
                 /\ nodes[k].form = "unsupported"
                 /\ \A j \in 1..(k - 1) : nodes[j].form # "unsupported"
    IN  ParseError(nodes[i].at, "serialize")

\* MessageSerializer.serialize: the message as text and placeholder segments
Serialize(nodes) ==
    [i \in 1..Len(nodes) |-> IF nodes[i].form = "text" THEN "text" ELSE "{$PH}"]

\* translation: null
NullTranslation == <<"null">>

\* Line 177
SucceededResult(translation, errs) ==
    [translation |-> translation, parseErrors |-> errs, serializeErrors |-> << >>]

\* Line 179 with the thrown error added to the parse errors
CaughtResultMerged(errs, e) ==
    [translation |-> NullTranslation, parseErrors |-> Append(errs, e),
     serializeErrors |-> << >>]

\* Line 179
CaughtResult(errs, e) ==
    [translation |-> NullTranslation, parseErrors |-> errs, serializeErrors |-> <<e>>]

InitSerialize ==
    /\ reader = [c \in {} |-> 0]
    /\ FlattenIdle
    /\ ast = << >>
    /\ FindIdle
    /\ element = << >>
    /\ SerializeIdle
    /\ tpl = << >>
    /\ TemplateIdle
    /\ PipeIdle
    /\ directive = ""
    /\ clauses = << >>
    /\ MicroIdle

\* Line 174: the call begins with parseInnerRange(element)
SerializeCall ==
    /\ spc \in {"idle", "done"}
    /\ \E el \in Elements :
          /\ element' = el
          /\ rootNodes' = ParseInnerRange(el).rootNodes
          /\ parseErrors' = ParseInnerRange(el).errors
    /\ returned' = << >>
    /\ spc' = "try"
    /\ UNCHANGED <<flattenVars, findVars, templateVars,
                 pipeVars, microVars>>

\* Lines 175-177: serialize(rootNodes) returned
SerializeReturn ==
    /\ spc = "try"
    /\ ~SerializeThrows(rootNodes)
    /\ returned' = <<SucceededResult(Serialize(rootNodes), parseErrors)>>
    /\ spc' = "done"
    /\ UNCHANGED <<element, rootNodes, parseErrors>>
    /\ UNCHANGED <<flattenVars, findVars, templateVars,
                 pipeVars, microVars>>

\* Lines 178-180: serialize(rootNodes) threw
SerializeCatch ==
    /\ spc = "try"
    /\ SerializeThrows(rootNodes)
    /\ returned' = <<CaughtResult(parseErrors, ThrownError(rootNodes))>>
    /\ spc' = "done"
    /\ UNCHANGED <<element, rootNodes, parseErrors>>
    /\ UNCHANGED <<flattenVars, findVars, templateVars,
                 pipeVars, microVars>>

NextSerialize == SerializeCall \/ SerializeReturn \/ SerializeCatch

SpecSerialize == InitSerialize /\ [][NextSerialize]_vars

-----------------------------------------------------------------------------
(* Claims about serializeTranslationMessage *)

\* C17: when serializing throws an error e the call returns translation
\* null, serializeErrors <<e>> and the parse errors as parseInnerRange gave
\* them; when it succeeds the call returns the translation, the parse errors
\* and no serialize errors; and with or without parse errors the call goes on
\* from parsing to serializing.
C17_ErrorsKeptApart ==
    /\ spc = "try" => ENABLED (SerializeReturn \/ SerializeCatch)
    /\ spc = "done" =>
          LET r == returned[1]
              parsed == ParseInnerRange(element)
          IN  /\ r.parseErrors = parsed.errors
              /\ IF SerializeThrows(parsed.rootNodes)
                 THEN /\ r.translation = NullTranslation
                      /\ r.serializeErrors = <<ThrownError(parsed.rootNodes)>>
                 ELSE /\ r.translation = Serialize(parsed.rootNodes)
                      /\ r.serializeErrors = << >>

\* C17 witness: an element with malformed markup and a node the serializer
\* throws on gave no translation, one serialize error and the parse errors
C17_Witness ==
    /\ spc = "done"
    /\ parseErrors # << >>
    /\ returned[1].parseErrors = parseErrors
    /\ Len(returned[1].serializeErrors) = 1
    /\ returned[1].translation = NullTranslation

-----------------------------------------------------------------------------
(* Compiling a template: translation markers and structural directives *)

\* The largest number of elements nested in one another
MaxDepth == 3

Tags == {"div", "ng-container"}

DirectiveNames == {"ngIf", "ngFor"}

\* The structural-directive shorthands an element carries, in source order:
\* none, *a, or *a and *b
Shorthands ==
    {<< >>} \cup {<<a>> : a \in DirectiveNames}
            \cup {s \in DirectiveNames \X DirectiveNames : s[1] # s[2]}

\* An element with its tag, its i18n marker and its shorthands
Hosts == [tag : Tags, i18n : BOOLEAN, stars : Shorthands]

NestedSectionMessage ==
    "Cannot mark an element as translatable inside of a translatable section. Please remove the nested i18n marker."

MultipleBindingsMessage == "Can't have multiple template bindings on one element."

\* The errors for the shorthands of an element, none reported
ShorthandErrorsDropped(el, at) == << >>

\* An element may carry one structural directive only
ShorthandErrors(el, at) ==
    IF Len(el.stars) > 1 THEN <<ParseError(at, MultipleBindingsMessage)>> ELSE << >>

\* The directive of the <ng-template> an element is wrapped in, "" for none
WrapperOf(el) == IF el.stars = << >> THEN "" ELSE el.stars[1]

\* The element has an i18n marker inside an open translatable section
IsNestedMarker(el, open, off) == el.i18n /\ open /\ ~off

\* The error for a nested marker, anchored at the outermost element
MarkerErrorsAtRoot(el, at, open, off) ==
    IF IsNestedMarker(el, open, off)
    THEN <<ParseError(1, NestedSectionMessage)>> ELSE << >>

\* The error for a nested marker, anchored at the element that carries it
MarkerErrors(el, at, open, off) ==
    IF IsNestedMarker(el, open, off)
    THEN <<ParseError(at, NestedSectionMessage)>> ELSE << >>

InitTemplate ==
    /\ reader = [c \in {} |-> 0]
    /\ FlattenIdle
    /\ ast = << >>
    /\ FindIdle
    /\ element = << >>
    /\ SerializeIdle
    /\ tpl = << >>
    /\ TemplateIdle
    /\ PipeIdle
    /\ directive = ""
    /\ clauses = << >>
    /\ MicroIdle

\* The compilation of a template begins
CompileStart ==
    /\ tpc \in {"idle", "done"}
    /\ tpc' = "open"
    /\ tpl' = << >>
    /\ level' = 0
    /\ inI18nBlock' = FALSE
    /\ aborted' = FALSE
    /\ wrappers' = << >>
    /\ ngParseErrors' = << >>
    /\ UNCHANGED <<flattenVars, findVars, serializeVars,
                 pipeVars, microVars>>

\* The builder reads the opening tag of the next element, nested in the last
OpenElement ==
    /\ tpc = "open"
    /\ level < MaxDepth
    /\ \E el \in Hosts :
          /\ tpl' = Append(tpl, el)
          /\ wrappers' = Append(wrappers, WrapperOf(el))
          /\ ngParseErrors' = ngParseErrors
                                \o ShorthandErrors(el, level + 1)
                                \o MarkerErrors(el, level + 1, inI18nBlock, aborted)
          /\ aborted' = (aborted \/ IsNestedMarker(el, inI18nBlock, aborted))
          /\ inI18nBlock' = (inI18nBlock \/ el.i18n)
    /\ level' = level + 1
    /\ UNCHANGED tpc
    /\ UNCHANGED <<flattenVars, findVars, serializeVars,
                 pipeVars, microVars>>

\* The end of the template: the open elements are closed
CompileEnd ==
    /\ tpc = "open"
    /\ tpc' = "done"
    /\ UNCHANGED <<tpl, level, inI18nBlock, aborted, wrappers, ngParseErrors>>
    /\ UNCHANGED <<flattenVars, findVars, serializeVars,
                 pipeVars, microVars>>

NextTemplate == CompileStart \/ OpenElement \/ CompileEnd

SpecTemplate == InitTemplate /\ [][NextTemplate]_vars

-----------------------------------------------------------------------------
(* Claims about compiling a template *)

\* The compilation has ended
Compiled == tpc = "done"

\* The elements with an i18n marker that lie inside a marked element
NestedMarkers(t) ==
    {i \in 1..Len(t) : t[i].i18n /\ \E j \in 1..(i - 1) : t[j].i18n}

\* The parse errors with the given message
ErrorsWith(errs, msg) == SelectSeq(errs, LAMBDA e : e.msg = msg)

\* C18: a template with an i18n marker on an element or ng-container inside
\* a marked element, directly or with unmarked elements in between, gives
\* exactly one parse error with the nested-section message, anchored at the
\* outermost nested marked element; it is the only parse error when no
\* element carries two structural directives.
C18_OneNestedSectionError ==
    (Compiled /\ NestedMarkers(tpl) # {}) =>
        /\ \E i \in NestedMarkers(tpl) :
              /\ \A j \in NestedMarkers(tpl) : i <= j
              /\ ErrorsWith(ngParseErrors, NestedSectionMessage)
                    = <<ParseError(i, NestedSectionMessage)>>
        /\ (\A i \in 1..Len(tpl) : Len(tpl[i].stars) < 2)
              => Len(ngParseErrors) = 1

\* C18 witness: <ng-container i18n><div><ng-container i18n> was compiled and
\* gave one error, at the third element
C18_Witness ==
    /\ Compiled
    /\ Len(tpl) = 3
    /\ tpl[1].tag = "ng-container" /\ tpl[1].i18n
    /\ tpl[2].tag = "div" /\ ~tpl[2].i18n
    /\ tpl[3].tag = "ng-container" /\ tpl[3].i18n
    /\ ngParseErrors = <<ParseError(3, NestedSectionMessage)>>

\* C20: an element that carries two structural-directive shorthands gives a
\* parse error at that element, whichever the two directives are and in
\* whichever order they stand; the second is not dropped without an error
\* and is not the directive of the wrapping template.
C20_TwoShorthandsAreAnError ==
    Compiled =>
        \A i \in 1..Len(tpl) :
            Len(tpl[i].stars) = 2 =>
                /\ \E k \in 1..Len(ngParseErrors) :
                      ngParseErrors[k] = ParseError(i, MultipleBindingsMessage)
                /\ wrappers[i] # tpl[i].stars[2]

\* C20 witness: an element with *ngFor and *ngIf, in this order, was compiled
\* and gave the error
C20_Witness ==
    /\ Compiled
    /\ Len(tpl) = 1
    /\ tpl[1].stars = <<"ngFor", "ngIf">>
    /\ ngParseErrors = <<ParseError(1, MultipleBindingsMessage)>>

-----------------------------------------------------------------------------
(* Further claims about flattenInheritedDirectiveMetadata *)

\* Some level of the chain names a base class the reader has no metadata for
ChainHasMissingBase(r, c) ==
    \E l \in Range(LevelsFrom(r, c)) :
        r[l].baseClass \notin {NullBase, DynamicBase} /\ ~HasMetadata(r, r[l].baseClass)

\* C30: a call throws exactly when the reader has no metadata for the
\* directive passed to it, and then returns no record; when the metadata of a
\* base class further up the chain is missing the call does not throw and
\* returns a record with baseClass 'dynamic'.
C30_OnlyTopLevelThrows ==
    /\ pc = "threw" => (~HasMetadata(reader, dir) /\ result = << >>)
    /\ (pc # "idle" /\ ~HasMetadata(reader, dir)) => pc = "threw"
    /\ (pc = "done" /\ ChainHasMissingBase(reader, dir))
          => (Len(result) = 1 /\ result[1].baseClass = DynamicBase)

\* C30 witness: the call for a class without metadata threw, and a directive
\* the reader knows names that class as its base class
C30_Witness ==
    /\ pc = "threw"
    /\ result = << >>
    /\ \E c \in DOMAIN reader : reader[c].baseClass = dir

-----------------------------------------------------------------------------
(* Further claims about findNodeAtPosition *)

\* The offset is the start or the end of the span
AtAnEnd(span, offset) == span # NoSpan /\ offset \in {span.start, span.end}

\* C25: an offset equal to the start or to the end of a span counts as
\* inside it: a template node visited at such an offset is pushed unless it
\* is larger than the last node of the path, an expression node other than an
\* implicit receiver is pushed, and a candidate with a key span is returned
\* when the offset is an end of its key span or of its value span.
C25_EndsAreInside ==
    /\ [][(fpc = "visit" /\ todo # << >>) =>
            IF IsTemplateNode(Current)
            THEN (AtAnEnd(NodeSpan(Current), position)
                    /\ (path = << >>
                          \/ LengthOf(Current) <= LengthOf(NodeOf(ast, path[Len(path)]))))
                    => Current.id \in pushed'
            ELSE LET node == IF Current.kind = "ASTWithSource"
                             THEN NodeOf(ast, IdsIn(ast, Current.id, "ast")[1])
                             ELSE Current
                 IN  (AtAnEnd(node.sourceSpan, position) /\ node.kind # "ImplicitReceiver")
                        => node.id \in pushed']_vars
    /\ [](FindDone /\ path # << >> =>
            LET candidate == NodeOf(ast, path[Len(path)]) IN
            (candidate.kind \in KeyedKinds
               /\ (AtAnEnd(candidate.keySpan, position)
                     \/ AtAnEnd(candidate.valueSpan, position)))
                => found = <<candidate.id>>)

\* C25 witness: a text attribute was returned at the offset where its value
\* span ends
C25_Witness ==
    /\ FindDone
    /\ found # << >>
    /\ LET n == NodeOf(ast, found[1]) IN
       /\ n.kind = "TextAttribute"
       /\ n.valueSpan # NoSpan
       /\ position = n.valueSpan.end

-----------------------------------------------------------------------------
(* AsyncPipe *)

\* The largest number of subscriptions the pipe creates in one behaviour
MaxSubscriptions == 2

\* The values a source emits are 1..MaxValue; 0 stands for null
MaxValue == 2

Values == 1..MaxValue

\* Return values that stand for a thrown error
InvalidPipeArgument == -1

TypeError == -2

\* The pipe's fields and what its calls act on, as one record; marks counts
\* the markForCheck calls of the step at hand, thrown names the error thrown
TheWorld ==
    [obj |-> _obj, strategy |-> _strategy, subscription |-> _subscription,
     latestValue |-> _latestValue, subscriptions |-> subscriptions,
     microtasks |-> microtasks, marks |-> 0, seen |-> seen, thrown |-> "none"]

\* _updateLatestValue without the comparison with this._obj
UpdateLatestValueAlways(w, async, value) ==
    [w EXCEPT !.latestValue = value, !.marks = @ + 1, !.seen = value]

\* _updateLatestValue with lines 144 and 145 exchanged
UpdateLatestValueLate(w, async, value) ==
    IF async = w.obj
    THEN [w EXCEPT !.latestValue = value, !.marks = @ + 1, !.seen = w.latestValue]
    ELSE w

\* Lines 142-147: _updateLatestValue; markForCheck is called when the value
\* is stored
UpdateLatestValue(w, async, value) ==
    IF async = w.obj
    THEN LET stored == [w EXCEPT !.latestValue = value]
         IN  [stored EXCEPT !.marks = @ + 1, !.seen = stored.latestValue]
    ELSE w

\* Lines 20-28 and 39-44: createSubscription.  A promise that is settled
\* queues the callback; the replaying observable calls it at once.
CreateSubscription(w, o) ==
    LET w1 == [w EXCEPT !.subscriptions = Append(@, [source |-> o, closed |-> FALSE])]
        w2 == IF o \in Promises
              THEN IF settled[o] # 0
                   THEN [w1 EXCEPT !.microtasks =
                                      Append(@, [source |-> o, value |-> settled[o]])]
                   ELSE w1
              ELSE IF o = "B" THEN UpdateLatestValue(w1, o, current) ELSE w1
    IN  [w2 EXCEPT !.subscription = Len(w1.subscriptions)]

\* Lines 123-133: _selectStrategy
SelectStrategy(o) ==
    IF o \in Promises THEN "promise"
    ELSE IF o \in Observables THEN "observable"
    ELSE "throw"

\* Lines 116-121: _subscribe
Subscribe(w, o) ==
    LET w1 == [w EXCEPT !.obj = o] IN
    IF SelectStrategy(o) = "throw"
    THEN [w1 EXCEPT !.thrown = "invalidPipeArgument"]
    ELSE CreateSubscription([w1 EXCEPT !.strategy = SelectStrategy(o)], o)

\* _dispose without the call of the strategy's dispose
DisposeWithoutUnsubscribe(w) ==
    IF w.strategy = "null" \/ (w.strategy = "observable" /\ w.subscription = 0)
    THEN [w EXCEPT !.thrown = "TypeError"]
    ELSE [w EXCEPT !.latestValue = 0, !.subscription = 0, !.obj = "null"]

\* _dispose without line 138
DisposeKeepsSubscription(w) ==
    IF w.strategy = "null" \/ (w.strategy = "observable" /\ w.subscription = 0)
    THEN [w EXCEPT !.thrown = "TypeError"]
    ELSE [w EXCEPT !.subscriptions =
                      IF w.strategy = "observable"
                      THEN [@ EXCEPT ![w.subscription].closed = TRUE] ELSE @,
                   !.latestValue = 0, !.obj = "null"]

\* _dispose without line 137
DisposeKeepsValue(w) ==
    IF w.strategy = "null" \/ (w.strategy = "observable" /\ w.subscription = 0)
    THEN [w EXCEPT !.thrown = "TypeError"]
    ELSE [w EXCEPT !.subscriptions =
                      IF w.strategy = "observable"
                      THEN [@ EXCEPT ![w.subscription].closed = TRUE] ELSE @,
                   !.subscription = 0, !.obj = "null"]

\* Lines 135-140: _dispose.  this._strategy.dispose(...) throws a TypeError
\* when _strategy is null, and so does subscription.unsubscribe() of the
\* observable strategy when _subscription is null.
Dispose(w) ==
    IF w.strategy = "null" \/ (w.strategy = "observable" /\ w.subscription = 0)
    THEN [w EXCEPT !.thrown = "TypeError"]
    ELSE [w EXCEPT !.subscriptions =
                      IF w.strategy = "observable"
                      THEN [@ EXCEPT ![w.subscription].closed = TRUE] ELSE @,
                   !.latestValue = 0, !.subscription = 0, !.obj = "null"]

\* Lines 101-106: transform while no object is bound
TransformUnbound(w, o) == IF o # "null" THEN Subscribe(w, o) ELSE w

\* transform subscribing again when called with the bound object
TransformSubscribesAgain(w, o) ==
    IF w.obj = "null" THEN TransformUnbound(w, o)
    ELSE IF o # w.obj
         THEN LET d == Dispose(w) IN
              IF d.thrown # "none" THEN d ELSE TransformUnbound(d, o)
         ELSE Subscribe(w, o)

\* Lines 100-114: transform
Transform(w, o) ==
    IF w.obj = "null" THEN TransformUnbound(w, o)
    ELSE IF o # w.obj
         THEN LET d == Dispose(w) IN
              IF d.thrown # "none" THEN d ELSE TransformUnbound(d, o)
         ELSE w

\* What a call returns: _latestValue, or the error it throws
ReturnOf(w) ==
    CASE w.thrown = "invalidPipeArgument" -> InvalidPipeArgument
      [] w.thrown = "TypeError" -> TypeError
      [] OTHER -> w.latestValue

\* The live subscriptions to an observable
Live(subs, o) == {i \in 1..Len(subs) : subs[i].source = o /\ ~subs[i].closed}

RECURSIVE Next_n(_, _, _, _)
\* An observable calls the next callback of each of its n live subscriptions
Next_n(w, o, v, n) ==
    IF n = 0 THEN w ELSE Next_n(UpdateLatestValue(w, o, v), o, v, n - 1)

InitPipe ==
    /\ reader = [c \in {} |-> 0]
    /\ FlattenIdle
    /\ ast = << >>
    /\ FindIdle
    /\ element = << >>
    /\ SerializeIdle
    /\ tpl = << >>
    /\ TemplateIdle
    /\ PipeIdle
    /\ directive = ""
    /\ clauses = << >>
    /\ MicroIdle

\* The fields and the environment after a call that left the world as w
Becomes(w) ==
    /\ _obj' = w.obj
    /\ _strategy' = w.strategy
    /\ _subscription' = w.subscription
    /\ _latestValue' = w.latestValue
    /\ subscriptions' = w.subscriptions
    /\ microtasks' = w.microtasks
    /\ marked' = w.marks
    /\ seen' = w.seen

\* What the bound source has delivered since it was bound, after a call that
\* left the world as w: nothing when the call bound an object anew, except
\* for the value a replaying observable delivers at once
HeardAfter(w) ==
    IF Len(w.subscriptions) > Len(subscriptions) \/ w.obj # _obj
    THEN IF w.obj = "B" THEN current ELSE 0
    ELSE heard

\* Lines 100-114: the call transform(o)
TransformOf(o) ==
    LET w == Transform(TheWorld, o) IN
    /\ Len(w.subscriptions) <= MaxSubscriptions
    /\ Becomes(w)
    /\ op' = "transform"
    /\ arg' = o
    /\ returnValue' = ReturnOf(w)
    /\ checks' = IF Len(w.subscriptions) > Len(subscriptions)
                 THEN [checks EXCEPT ![o] = w.marks] ELSE checks
    /\ heard' = HeardAfter(w)
    /\ UNCHANGED <<settled, current>>
    /\ UNCHANGED <<flattenVars, findVars, serializeVars, templateVars, microVars>>

TransformCall == \E o \in Objects : TransformOf(o)

\* Lines 91-95: ngOnDestroy
NgOnDestroy ==
    LET w == IF _subscription # 0 THEN Dispose(TheWorld) ELSE TheWorld IN
    /\ Becomes(w)
    /\ op' = "ngOnDestroy"
    /\ heard' = HeardAfter(w)
    /\ UNCHANGED <<arg, returnValue, checks, settled, current>>
    /\ UNCHANGED <<flattenVars, findVars, serializeVars, templateVars, microVars>>

\* The promise p is resolved with v: the callbacks registered with then() are due
ResolveOf(p, v) ==
    /\ settled[p] = 0
    /\ settled' = [settled EXCEPT ![p] = v]
    /\ LET mine == SelectSeq(subscriptions, LAMBDA s : s.source = p)
       IN  microtasks' = microtasks
                           \o [i \in 1..Len(mine) |-> [source |-> p, value |-> v]]
    /\ checks' = [checks EXCEPT ![p] = 0]
    /\ op' = "resolve"
    /\ marked' = 0
    /\ UNCHANGED <<_obj, _strategy, _subscription, _latestValue, subscriptions,
                   current, arg, returnValue, seen, heard>>
    /\ UNCHANGED <<flattenVars, findVars, serializeVars, templateVars, microVars>>

Resolve == \E p \in Promises, v \in Values : ResolveOf(p, v)

\* Lines 41 and 119-120: a then-callback runs, it calls _updateLatestValue
RunCallback ==
    /\ microtasks # << >>
    /\ LET t == Head(microtasks)
           w == UpdateLatestValue([TheWorld EXCEPT !.microtasks = Tail(@)],
                                  t.source, t.value)
       IN  /\ Becomes(w)
           /\ checks' = [checks EXCEPT ![t.source] = @ + w.marks]
           /\ heard' = IF t.source = _obj THEN t.value ELSE heard
    /\ op' = "deliver"
    /\ UNCHANGED <<arg, returnValue, settled, current>>
    /\ UNCHANGED <<flattenVars, findVars, serializeVars, templateVars, microVars>>

\* Lines 22-23 and 119-120: the observable o emits v, the next callback of
\* every live subscription calls _updateLatestValue
EmitOf(o, v) ==
    LET w == Next_n(TheWorld, o, v, Cardinality(Live(subscriptions, o))) IN
    /\ Becomes(w)
    /\ checks' = [checks EXCEPT ![o] = w.marks]
    /\ heard' = IF o = _obj THEN v ELSE heard
    /\ current' = IF o = "B" THEN v ELSE current
    /\ op' = "emit"
    /\ UNCHANGED <<arg, returnValue, settled>>
    /\ UNCHANGED <<flattenVars, findVars, serializeVars, templateVars, microVars>>

Emit == \E o \in Observables, v \in Values : EmitOf(o, v)

NextPipe == TransformCall \/ NgOnDestroy \/ Resolve \/ RunCallback \/ Emit

SpecPipe == InitPipe /\ [][NextPipe]_vars


-----------------------------------------------------------------------------
(* Claims about AsyncPipe *)

\* C22: a transform call that ends with a source bound returns what that
\* source last delivered since it was bound, null (0) when it has delivered
\* nothing; a call with the object that is already bound as source adds no
\* subscription.
C22_TransformReturnsLatest ==
    /\ [](op = "transform" /\ _obj \in Sources /\ returnValue >= 0
            => returnValue = heard)
    /\ [](_obj \in Sources => _latestValue = heard)
    /\ [][\A o \in Sources :
            TransformOf(o) /\ o = _obj
                => /\ subscriptions' = subscriptions
                   /\ microtasks' = microtasks
                   /\ returnValue' = _latestValue]_vars

\* transform has returned the value the bound observable emitted, to a
\* second call with the same observable, which the pipe subscribed to once
C22_Witness ==
    /\ op = "transform"
    /\ arg = "O"
    /\ _obj = "O"
    /\ heard = 2
    /\ returnValue = 2
    /\ Len(subscriptions) = 1


\* C23: ngOnDestroy called while the pipe holds a subscription to an
\* observable unsubscribes it and leaves the pipe with no subscription, no
\* bound source and a null latest value; called while the pipe holds no
\* subscription it changes nothing.
C23_DestroyUnsubscribes ==
    [][NgOnDestroy =>
          IF _subscription # 0
          THEN /\ _strategy = "observable"
                    => /\ subscriptions'[_subscription].closed
                       /\ Live(subscriptions', _obj) = {}
               /\ _subscription' = 0
               /\ _obj' = "null"
               /\ _latestValue' = 0
          ELSE UNCHANGED <<_obj, _strategy, _subscription, _latestValue,
                           subscriptions, microtasks>>]_vars

\* The pipe has been destroyed while it was subscribed to an observable that
\* had emitted a value to it
C23_Witness ==
    /\ op = "ngOnDestroy"
    /\ Len(subscriptions) = 1
    /\ subscriptions[1].source = "O"
    /\ subscriptions[1].closed
    /\ checks["O"] = 1
    /\ _subscription = 0
    /\ _obj = "null"
    /\ _latestValue = 0


\* Every delivery of a value by the source the pipe is bound to stores the
\* value and then calls markForCheck once
OneMarkPerDelivery ==
    /\ [][\A o \in Observables, v \in Values :
            EmitOf(o, v) /\ o = _obj
                => marked' = 1 /\ seen' = v /\ _latestValue' = v]_vars
    /\ [][RunCallback /\ Head(microtasks).source = _obj
                => /\ marked' = 1
                   /\ seen' = Head(microtasks).value
                   /\ _latestValue' = Head(microtasks).value]_vars

\* C24 as stated: every value emitted by the source the pipe is bound to
\* causes exactly one markForCheck call, made after the latest value has been
\* updated to the emitted value.
C24_ExactlyOneMarkPerValue ==
    /\ OneMarkPerDelivery
    /\ [](\A s \in Sources : checks[s] <= 1)

\* The number of times the pipe has subscribed to the source s
TimesSubscribed(s) ==
    Cardinality({i \in 1..Len(subscriptions) : subscriptions[i].source = s})

\* C24, amended: every delivery of a value by the bound source causes exactly
\* one markForCheck call, made after the latest value has been updated to
\* the delivered value; a value emitted by the bound observable is delivered
\* once, the value of the bound promise once for each time the pipe has
\* subscribed to the promise.
C24_OneMarkPerDelivery ==
    /\ OneMarkPerDelivery
    /\ [](\A o \in Observables : checks[o] <= 1)
    /\ [](\A p \in Promises : checks[p] <= TimesSubscribed(p))

\* The promise the pipe is bound to for the second time has resolved and
\* both of its callbacks have called markForCheck
C24_Witness ==
    /\ op = "deliver"
    /\ _obj = "P"
    /\ TimesSubscribed("P") = 2
    /\ checks["P"] = 2
    /\ marked = 1
    /\ seen = settled["P"]
    /\ _latestValue = settled["P"]


\* C26: a value delivered by a source that is not the pipe's bound source (a
\* then-callback of a promise the pipe has switched away from, or was
\* destroyed while bound to) leaves the latest value as it was and calls
\* markForCheck not at all, whatever the interleaving of transform,
\* ngOnDestroy and emissions before it.
C26_StaleDeliveryIgnored ==
    /\ [][RunCallback /\ Head(microtasks).source # _obj
            => /\ _latestValue' = _latestValue
               /\ marked' = 0
               /\ UNCHANGED <<_obj, _strategy, _subscription, seen, heard>>]_vars
    /\ [][\A o \in Observables, v \in Values :
            EmitOf(o, v) /\ o # _obj
                => /\ _latestValue' = _latestValue
                   /\ marked' = 0
                   /\ UNCHANGED <<_obj, _strategy, _subscription, seen, heard>>]_vars

\* The callback of a resolved promise has run while the pipe was bound to an
\* observable whose latest value is another one
C26_Witness ==
    /\ op = "deliver"
    /\ marked = 0
    /\ _obj = "O"
    /\ subscriptions[1].source = "P"
    /\ settled["P"] = 1
    /\ _latestValue = 2
    /\ microtasks = << >>


\* C27: a transform call with an object (a promise, an observable or null)
\* other than the bound source disposes the old subscription and resets the
\* latest value within the call: it returns null (0), or the value a
\* replaying observable delivers at once on subscription, never the value of
\* the old source; for null it returns null and leaves nothing bound.
C27_SwitchResetsValue ==
    [][\A o \in Sources \cup {"null"} :
          TransformOf(o) /\ _obj \in Sources /\ o # _obj
              => /\ _strategy = "observable"
                      => /\ subscriptions'[_subscription].closed
                         /\ Live(subscriptions', _obj) = {}
                 /\ returnValue' = IF o = "B" THEN current ELSE 0
                 /\ _latestValue' = returnValue'
                 /\ _obj' = o
                 /\ o = "null" => _subscription' = 0
                 /\ o # "null" => /\ _subscription' = Len(subscriptions')
                                  /\ subscriptions'[_subscription'].source = o]_vars

\* The pipe has switched from an observable that had emitted a value to it
\* to a promise, and the call returned null
C27_Witness ==
    /\ op = "transform"
    /\ arg = "P"
    /\ _obj = "P"
    /\ returnValue = 0
    /\ Len(subscriptions) = 2
    /\ subscriptions[1] = [source |-> "O", closed |-> TRUE]
    /\ checks["O"] = 1
    /\ _subscription = 2

\* C28: after any sequence of transform calls, emissions and ngOnDestroy, the
\* pipe holds a subscription exactly when it has a bound source (a promise or
\* an observable), the subscription is the one to the bound source, and
\* every other subscription to an observable the pipe has created is
\* unsubscribed.
C28_OneLiveSubscription ==
    /\ _subscription # 0 <=> _obj \in Sources
    /\ _obj \in Sources => /\ _subscription \in 1..Len(subscriptions)
                           /\ subscriptions[_subscription].source = _obj
                           /\ ~subscriptions[_subscription].closed
    /\ \A i \in 1..Len(subscriptions) :
          (subscriptions[i].source \in Observables /\ i # _subscription)
              => subscriptions[i].closed

\* The pipe has subscribed to an observable twice and is bound to it: the
\* first subscription is unsubscribed, the second is live
C28_Witness ==
    /\ Len(subscriptions) = 2
    /\ subscriptions[1] = [source |-> "O", closed |-> TRUE]
    /\ subscriptions[2] = [source |-> "O", closed |-> FALSE]
    /\ _obj = "O"
    /\ _subscription = 2


\* C29: a transform call with an object that is neither a promise nor an
\* observable throws the invalid-pipe-argument error and leaves no source
\* bound and no subscription, so that the same call made again throws the
\* same error, and no later call fails in another way.
C29_InvalidArgumentLeavesNothingBound ==
    /\ [][TransformOf("X")
            => /\ returnValue' = InvalidPipeArgument
               /\ _obj' = "null"
               /\ _subscription' = 0]_vars
    /\ [](returnValue # TypeError)


-----------------------------------------------------------------------------
(* Microsyntax of a structural directive *)

\* The largest number of clauses of an attribute value
MaxClauses == 3

\* The keys of named inputs, each as its first letter and the rest
Keys == {[first |-> "o", rest |-> "f"], [first |-> "t", rest |-> "rackBy"]}

\* The key as written in the attribute value
Written(key) == key.first \o key.rest

\* The key as written, not title-cased
TitleCaseNot(key) == Written(key)

\* The key with its first letter in upper case
TitleCase(key) ==
    (CASE key.first = "o" -> "O"
       [] key.first = "t" -> "T") \o key.rest

\* let = "let" :local "=" :export, the export left out ("") or given
LetClauses ==
    [kind : {"let"}, local : {"item", "i"}, export : {"", "index"}]

\* as = :export "as" :local
AsClauses ==
    [kind : {"as"}, export : {"index"}, local : {"i", "n"}]

\* keyExp = :key ":"? :expression ("as" :local)?, the alias left out ("") or given
KeyClauses ==
    [kind : {"key"}, key : Keys, expression : {"[1,2,3]", "myTrack"},
     alias : {"", "items"}]

\* A naked expression, with or without an alias: the first clause only
PrimaryClauses ==
    [kind : {"primary"}, expression : {"exp"}, alias : {"", "value"}]

\* The local names a clause declares
LocalsOf(clause) ==
    CASE clause.kind \in {"let", "as"} -> {clause.local}
      [] OTHER -> {clause.alias} \ {""}

\* input := (let | expression) (let | as | keyExp)*, no local declared twice
WellFormed(cs) ==
    /\ cs[1] \in LetClauses \cup PrimaryClauses
    /\ \A k \in 2..Len(cs) : cs[k] \in LetClauses \cup AsClauses \cup KeyClauses
    /\ \A j, k \in 1..Len(cs) : j # k => LocalsOf(cs[j]) \cap LocalsOf(cs[k]) = {}

AttributeValues ==
    UNION {{cs \in [1..n -> LetClauses \cup AsClauses \cup KeyClauses
                                \cup PrimaryClauses] : WellFormed(cs)}
           : n \in 1..MaxClauses}

\* A template variable: let-local="export"
Variable(local, export, at) ==
    [type |-> "variable", name |-> local, value |-> export, span |-> at]

\* The bindings of an expression bound to the property name, with its alias
\* if it has one: [name]="expression" let-alias="name"
BoundAs(name, expression, alias, at) ==
    <<[type |-> "input", name |-> name, value |-> expression, span |-> at]>>
        \o IF alias = "" THEN << >> ELSE <<Variable(alias, name, at)>>

\* The clause to desugar next
Clause == clauses[mpc + 1]

\* The bindings of the clause are emitted after those of the clauses before it
EmitBindings(bs) ==
    /\ bindings' = bindings \o bs
    /\ mpc' = mpc + 1
    /\ UNCHANGED <<directive, clauses>>
    /\ UNCHANGED <<flattenVars, findVars, serializeVars, templateVars, pipeVars>>

InitMicro ==
    /\ directive \in {"ngFor", "ngIf"}
    /\ clauses \in AttributeValues
    /\ MicroIdle
    /\ reader = [c \in {} |-> 0]
    /\ FlattenIdle
    /\ ast = << >>
    /\ FindIdle
    /\ element = << >>
    /\ SerializeIdle
    /\ tpl = << >>
    /\ TemplateIdle
    /\ PipeIdle

\* A let clause: a template variable bound to the named export, to $implicit
\* when no export is named
ParseLet ==
    /\ mpc < Len(clauses)
    /\ Clause.kind = "let"
    /\ EmitBindings(<<Variable(Clause.local,
                        IF Clause.export = "" THEN "$implicit" ELSE Clause.export,
                        mpc + 1)>>)

\* An as clause: a template variable bound to the export
ParseAs ==
    /\ mpc < Len(clauses)
    /\ Clause.kind = "as"
    /\ EmitBindings(<<Variable(Clause.local, Clause.export, mpc + 1)>>)

\* A key with its expression: an input named by the attribute name followed
\* by the title-cased key
ParseKeyExp ==
    /\ mpc < Len(clauses)
    /\ Clause.kind = "key"
    /\ EmitBindings(BoundAs(directive \o TitleCase(Clause.key), Clause.expression,
                     Clause.alias, mpc + 1))

\* A naked expression: an input of the attribute name itself
ParsePrimary ==
    /\ mpc < Len(clauses)
    /\ Clause.kind = "primary"
    /\ EmitBindings(BoundAs(directive, Clause.expression, Clause.alias, mpc + 1))

NextMicro == ParseLet \/ ParseAs \/ ParseKeyExp \/ ParsePrimary

SpecMicro == InitMicro /\ [][NextMicro]_vars

\* The bindings emitted for the clause at position k
BindingsAt(k) == SelectSeq(bindings, LAMBDA b : b.span = k)

\* *ngFor="let item of [1,2,3]"
LetItemOf ==
    <<[kind |-> "let", local |-> "item", export |-> ""],
      [kind |-> "key", key |-> [first |-> "o", rest |-> "f"],
       expression |-> "[1,2,3]", alias |-> ""]>>

\* C21: when an attribute value is desugared, *ngFor="let item of [1,2,3]"
\* gives the template variable item bound to $implicit and then the input
\* ngForOf = [1,2,3]; every let clause without an export gives a variable
\* bound to $implicit, every key gives an input named by the attribute name
\* followed by the key with its first letter in upper case (ngForOf,
\* ngForTrackBy), and the bindings are in the order of their clauses.
C21_Desugared ==
    mpc = Len(clauses) =>
        /\ (directive = "ngFor" /\ clauses = LetItemOf)
              => /\ Len(bindings) = 2
                 /\ bindings[1].type = "variable"
                 /\ bindings[1].name = "item"
                 /\ bindings[1].value = "$implicit"
                 /\ bindings[2].type = "input"
                 /\ bindings[2].name = "ngForOf"
                 /\ bindings[2].value = "[1,2,3]"
        /\ \A k \in 1..Len(clauses) :
              /\ (clauses[k].kind = "let" /\ clauses[k].export = "")
                    => /\ Len(BindingsAt(k)) = 1
                       /\ BindingsAt(k)[1].type = "variable"
                       /\ BindingsAt(k)[1].name = clauses[k].local
                       /\ BindingsAt(k)[1].value = "$implicit"
              /\ clauses[k].kind = "key"
                    => /\ BindingsAt(k)[1].type = "input"
                       /\ BindingsAt(k)[1].value = clauses[k].expression
                       /\ Written(clauses[k].key) = "of"
                             => BindingsAt(k)[1].name = directive \o "Of"
                       /\ Written(clauses[k].key) = "trackBy"
                             => BindingsAt(k)[1].name = directive \o "TrackBy"
        /\ \A a, b \in 1..Len(bindings) :
              a < b => bindings[a].span <= bindings[b].span
        /\ \A k \in 1..Len(clauses) : BindingsAt(k) # << >>

\* *ngFor="let item of [1,2,3] as items; trackBy: myTrack" is desugared
C21_Witness ==
    /\ directive = "ngFor"
    /\ Len(clauses) = 3
    /\ SubSeq(clauses, 1, 1) = SubSeq(LetItemOf, 1, 1)
    /\ clauses[2].kind = "key"
    /\ Written(clauses[2].key) = "of"
    /\ clauses[2].alias = "items"
    /\ clauses[3].kind = "key"
    /\ Written(clauses[3].key) = "trackBy"
    /\ mpc = 3
    /\ Len(bindings) = 4
    /\ bindings[4].name = "ngForTrackBy"

=============================================================================
